---- MODULE Spec2Model ----
(***************************************************************************)
(* JoomlaScan (joomla_scanner.py): the probing-and-aggregation engine.     *)
(*                                                                         *)
(* run_scanner opens the shared HTTP client, Scanner.scan cuts the         *)
(* candidate list into chunks of config.threads, runs one check_component  *)
(* coroutine per candidate of a chunk under asyncio.gather, collects the   *)
(* chunk's results, and generate_report sums up.  asyncio is cooperative:  *)
(* a coroutine runs without interruption from one await to the next, so    *)
(* every action below is the code between two suspension points (an HTTP   *)
(* request, asyncio.sleep, gather, aclose).                                *)
(***************************************************************************)
EXTENDS Integers, Sequences, FiniteSets, TLC

\* ---------------------------------------------------------------- bounds
\* Longest candidate list (lines of comptotestdb.txt).
MaxCands == 3
\* Largest config.threads explored (ScanConfig admits 1..50).
MaxThreads == 2
\* Largest config.max_retries explored (ScanConfig admits 1..5).
MaxRetries == 1
\* Most requests of one scan that end otherwise than with the plain answer
\* (not found, a page that shows nothing): a 200, a marker in the page, a
\* transport failure, an unexpected error.
MaxEvents == 1
\* The same two bounds for SpecSeq, the scans that probe one candidate at a
\* time (config.threads = 1).
MaxSeqCands == 2
MaxSeqEvents == 3
\* The same two bounds for SpecPar, the scans that probe two candidates at a
\* time (config.threads = 2).
MaxParCands == 2
MaxParEvents == 2
\* The same two bounds for SpecMain, the runs of main from its arguments on.
MaxMainCands == 1
MaxMainEvents == 1
\* The same two bounds for SpecTwice, two scans against one server.
MaxTwiceCands == 2
MaxTwiceEvents == 1
\* The same two bounds for SpecFair, the scans under fair scheduling.
MaxFairCands == 2
MaxFairEvents == 1

VARIABLES
    config,         \* ScanConfig: [threads, max_retries]
    components_db,  \* load_components_db(): the candidate list
    mpc,            \* position of main / run_scanner / scan
    i,              \* scan's loop variable (0-based start of the chunk)
    session,        \* the httpx.AsyncClient: "none", "open", "closed"
    tasks,          \* one check_component coroutine per candidate position
    components,     \* self.components
    progress,       \* number of progress.advance(task) calls
    report,         \* <<>> or <<ScanResult>>
    error,          \* TRUE once scan() has raised
    batches,        \* history: the chunks formed so far, in order
    reordered,      \* history: some chunk member finished before an earlier one
    last,           \* history: the request or check_url attempt that ended last
    answered,       \* history: per candidate, the paths the server answered 200
    exposed,        \* history: per candidate, the <<path, what>> the server showed
    eventsLeft,     \* requests that may still end otherwise than plainly
    server,         \* the server's answers: free, being fixed, fixed, or all failing
    first           \* <<>> or <<what the first of two runs ended with>>

vars == <<config, components_db, mpc, i, session, tasks, components, progress,
          report, error, batches, reordered, last, eventsLeft, answered, exposed, server, first>>

\* ----------------------------------------------------------- data model
None == <<"None", 0>>
Empty == <<"", 0>>

Statuses == {"200", "404", "500"}
UrlOps == {"path", "readme", "manifest", "ver_url"}
GetOps == {"dirlist", "ver_get", "ver_mget", "head"}

\* The three paths check_component builds for a candidate, in loop order:
\* 1 = /components/<c>/, 2 = /administrator/components/<c>/,
\* 3 = /index.php?option=<c>.
NumPaths == 3
\* readme_paths and manifest_paths.
NumReadme == 4
NumManifest == 2

\* ScanConfig's Field constraints: threads, timeout (seconds), max_retries.
ThreadsGe == 1
ThreadsLe == 50
TimeoutGe == 1
TimeoutLe == 30
TimeoutDefault == 5
MaxRetriesGe == 1
MaxRetriesLe == 5

\* A faulty ValidScanConfig: the upper limits not looked at.
ValidScanConfigGeOnly(cfg) ==
    /\ cfg.threads >= ThreadsGe
    /\ cfg.timeout >= TimeoutGe
    /\ cfg.max_retries >= MaxRetriesGe

\* ScanConfig(...): the values pass the Field constraints (otherwise the
\* constructor raises ValidationError).
ValidScanConfig(cfg) ==
    /\ cfg.threads >= ThreadsGe /\ cfg.threads <= ThreadsLe
    /\ cfg.timeout >= TimeoutGe /\ cfg.timeout <= TimeoutLe
    /\ cfg.max_retries >= MaxRetriesGe /\ cfg.max_retries <= MaxRetriesLe

Url(name, path) == <<name, path>>

Vulnerability(type, severity, url) ==
    [type |-> type, severity |-> severity, url |-> url]

Component(name, paths, vulnerabilities, version, last_modified) ==
    [name |-> name, paths |-> paths, vulnerabilities |-> vulnerabilities,
     version |-> version, last_modified |-> last_modified]

NoCall ==
    [task |-> 0, op |-> "none", path |-> 0, attempts |-> 0, resp |-> "none", ret |-> "none"]

\* A check_component coroutine: its suspension point (st, op, path, k,
\* retry_count), its locals and its return value.  Its field last is scratch
\* for the step being taken (see Note); at rest it is NoCall.
NewTask(name, st) ==
    [st |-> st, name |-> name, op |-> "none", path |-> 0, k |-> 0, retry_count |-> 0,
     found_paths |-> {}, vulnerabilities |-> <<>>, version |-> None,
     last_modified |-> None, result |-> <<>>, last |-> NoCall]

\* ------------------------------------------------------------ check_url
\* Records how the request t awaited ended: the attempt's number within its
\* call, the outcome, and what the call returns to its caller.
Note(t, resp, ret) ==
    [t EXCEPT !.last = [task |-> 0, op |-> t.op, path |-> t.path,
                        attempts |-> t.retry_count + 1, resp |-> resp, ret |-> ret]]

AtRest(t) == [t EXCEPT !.last = NoCall]

Goto(t, op, k) == [t EXCEPT !.st = "go", !.op = op, !.k = k, !.retry_count = 0]

\* A faulty IsRequestError: a server error treated like a transport failure.
IsRequestErrorOr5xx(o) == o \in {"fail", "500"}

\* except httpx.RequestError: the only outcome check_url handles.
IsRequestError(o) == o = "fail"

\* A faulty CanRetry: one retry too many.
CanRetryOnceMore(retry_count, max_retries) == retry_count <= max_retries

\* if retry_count < self.config.max_retries
CanRetry(retry_count, max_retries) == retry_count < max_retries

\* A faulty check_url: the retry made with the retry_count of the call.
check_url_same_count(t, o) ==
    IF IsRequestError(o)
    THEN IF CanRetry(t.retry_count, config.max_retries)
         THEN [Note(t, o, "retry") EXCEPT !.st = "sleep"]
         ELSE Note(t, o, "None")
    ELSE IF o \in Statuses
         THEN Note(t, o, o)
         ELSE Note(t, o, "raise")

\* One attempt of check_url ends with outcome o: a status is returned, a
\* transport failure sleeps and retries or returns None, anything else is
\* raised to the caller.  last.ret is what the call returns ("retry": not yet).
check_url(t, o) ==
    IF IsRequestError(o)
    THEN IF CanRetry(t.retry_count, config.max_retries)
         THEN [Note(t, o, "retry") EXCEPT !.st = "sleep",
                                           !.retry_count = t.retry_count + 1]
         ELSE Note(t, o, "None")
    ELSE IF o \in Statuses
         THEN Note(t, o, o)
         ELSE Note(t, o, "raise")

\* ------------------------------------------------------ check_component
\* A faulty Append1: the entry put in front of the list.
Insert1(t, type, severity) ==
    [t EXCEPT !.vulnerabilities =
        <<Vulnerability(type, severity, Url(t.name, t.path))>> \o t.vulnerabilities]

\* vulnerabilities.append(Vulnerability(type=..., severity=..., url=url))
Append1(t, type, severity) ==
    [t EXCEPT !.vulnerabilities =
        Append(t.vulnerabilities, Vulnerability(type, severity, Url(t.name, t.path)))]

\* A faulty Finish: a Component returned whether or not a path was found.
FinishAlways(t) ==
    [t EXCEPT !.st = "done",
              !.result = <<Component(t.name, t.found_paths, t.vulnerabilities,
                                     t.version, t.last_modified)>>]

\* if found_paths: return Component(...)   else: return None
Finish(t) ==
    [t EXCEPT !.st = "done",
              !.result = IF t.found_paths # {}
                         THEN <<Component(t.name, t.found_paths, t.vulnerabilities,
                                          t.version, t.last_modified)>>
                         ELSE <<>>]

\* for path in paths: the next iteration, or the end of the loop.
NextPath(t) ==
    IF t.path < NumPaths
    THEN [Goto(t, "path", 0) EXCEPT !.path = t.path + 1]
    ELSE Finish(t)

\* status = await self.check_url(url); if status == 200: ...
AfterPath(t, o) ==
    LET u == check_url(t, o)
        r == u.last.ret
    IN  CASE r = "retry" -> u
          [] r = "raise" -> [u EXCEPT !.st = "raised"]
          [] r = "200" -> Goto([u EXCEPT !.found_paths = u.found_paths \cup {u.path}],
                               "dirlist", 0)
          [] OTHER -> NextPath(u)

\* check_directory_listing: one session.get, any exception gives False.
AfterDirlist(t, o) ==
    LET u == Note(t, o, IF o = "index" THEN "True" ELSE "False")
    IN  Goto(IF o = "index" THEN Append1(u, "Directory Listing", "Medium") ELSE u,
             "readme", 1)

\* check_readme_files: the first of four check_url calls that gives 200.
AfterReadme(t, o) ==
    LET u == check_url(t, o)
        r == u.last.ret
    IN  CASE r = "retry" -> u
          [] r = "raise" -> [u EXCEPT !.st = "raised"]
          [] r = "200" -> Goto(Append1(u, "Exposed Documentation", "Low"), "manifest", 1)
          [] OTHER -> IF u.k < NumReadme
                      THEN Goto(u, "readme", u.k + 1)
                      ELSE Goto(u, "manifest", 1)

\* check_manifest_files: the first of two check_url calls that gives 200.
AfterManifest(t, o) ==
    LET u == check_url(t, o)
        r == u.last.ret
    IN  CASE r = "retry" -> u
          [] r = "raise" -> [u EXCEPT !.st = "raised"]
          [] r = "200" -> Goto(Append1(u, "Exposed Manifest", "Low"), "ver_get", 0)
          [] OTHER -> IF u.k < NumManifest
                      THEN Goto(u, "manifest", u.k + 1)
                      ELSE Goto(u, "ver_get", 0)

\* A faulty SetVersion: a version once extracted kept when a later path
\* yields none.
SetVersionIfPresent(t, v) ==
    Goto([t EXCEPT !.version = IF v = None THEN t.version ELSE v], "head", 0)

\* version = await self.get_component_version(url), then get_last_modified.
SetVersion(t, v) == Goto([t EXCEPT !.version = v], "head", 0)

\* get_component_version: the base page's generator meta.
AfterVerGet(t, o) ==
    CASE o = "meta" -> SetVersion(Note(t, o, "value"), <<"meta", t.path>>)
      [] o = "metaempty" -> SetVersion(Note(t, o, "empty"), Empty)
      [] o = "metanocontent" -> SetVersion(Note(t, o, "None"), None)
      [] o = "nometa" -> Goto(Note(t, o, "next"), "ver_url", 0)
      [] OTHER -> SetVersion(Note(t, o, "None"), None)

\* get_component_version: check_url(manifest_url) inside try/except Exception.
AfterVerUrl(t, o) ==
    LET u == check_url(t, o)
        r == u.last.ret
    IN  CASE r = "retry" -> u
          [] r = "200" -> Goto(u, "ver_mget", 0)
          [] OTHER -> SetVersion(u, None)

\* get_component_version: the manifest's version tag.
AfterVerMget(t, o) ==
    CASE o = "version" -> SetVersion(Note(t, o, "value"), <<"manifest", t.path>>)
      [] o = "versionempty" -> SetVersion(Note(t, o, "empty"), Empty)
      [] OTHER -> SetVersion(Note(t, o, "None"), None)

\* last_modified = await self.get_last_modified(url): one session.head.
AfterHead(t, o) ==
    LET u == Note(t, o, IF o = "lm" THEN "value" ELSE "None")
    IN  NextPath([u EXCEPT !.last_modified = IF o = "lm" THEN <<"lm", t.path>> ELSE None])

\* The coroutine resumed with the outcome o of the request it awaited.
After(t, o) ==
    CASE t.op = "path" -> AfterPath(t, o)
      [] t.op = "dirlist" -> AfterDirlist(t, o)
      [] t.op = "readme" -> AfterReadme(t, o)
      [] t.op = "manifest" -> AfterManifest(t, o)
      [] t.op = "ver_get" -> AfterVerGet(t, o)
      [] t.op = "ver_url" -> AfterVerUrl(t, o)
      [] t.op = "ver_mget" -> AfterVerMget(t, o)
      [] t.op = "head" -> AfterHead(t, o)

\* The coroutine runs on to its next suspension point.  On an open client the
\* request t.op is sent and awaited.  A closed client raises RuntimeError out
\* of session.get / session.head before anything is sent: that is no
\* RequestError, so check_url lets it through and the except Exception
\* clauses of the exposure checks swallow it, all within the same step.
RECURSIVE Advance(_, _)
Advance(t, closed) ==
    IF t.st # "go"
    THEN t
    ELSE IF ~closed
         THEN [t EXCEPT !.st = "wait"]
         ELSE Advance(After(t, "err"), closed)

\* What the server (or the transport) can answer to request op.
Outcomes(op) ==
    CASE op \in UrlOps -> Statuses \cup {"fail", "err"}
      [] op = "dirlist" -> {"index", "plain", "fail", "err"}
      [] op = "ver_get" -> {"meta", "metaempty", "metanocontent", "nometa", "fail", "err"}
      [] op = "ver_mget" -> {"version", "versionempty", "noversion", "fail", "err"}
      [] op = "head" -> {"lm", "lmbad", "nolm", "fail", "err"}
      [] OTHER -> {}

\* The exposure that answer o to request op shows, if any: an "Index of"
\* title on the path's page, a readme file or a manifest file served with 200.
Exposure(op, o) ==
    CASE op = "dirlist" /\ o = "index" -> <<"Directory Listing">>
      [] op = "readme" /\ o = "200" -> <<"Exposed Documentation">>
      [] op = "manifest" /\ o = "200" -> <<"Exposed Manifest">>
      [] OTHER -> <<>>

\* What answer o to a request of the version and date extraction carries, if
\* anything: a generator meta with a content, with an empty one, with none; a
\* version tag with a text, with an empty one; a well-formed Last-Modified.
Extraction(op, o) ==
    CASE op = "ver_get" /\ o \in {"meta", "metaempty", "metanocontent"} -> <<o>>
      [] op = "ver_mget" /\ o \in {"version", "versionempty"} -> <<o>>
      [] op = "head" /\ o = "lm" -> <<o>>
      [] OTHER -> <<>>

\* The answers that cost nothing of the scan's budget of events.
IsPlain(o) == o \in {"404", "plain", "nometa", "noversion", "nolm"}

\* The plain answer to request op.
PlainAnswer(op) ==
    CASE op \in UrlOps -> "404"
      [] op = "dirlist" -> "plain"
      [] op = "ver_get" -> "nometa"
      [] op = "ver_mget" -> "noversion"
      [] op = "head" -> "nolm"

\* A server whose answers nothing constrains.
AnyServer == [mode |-> "any", answers |-> {}]

\* A server (or a network) on which every request fails at the transport.
FailingServer == [mode |-> "failing", answers |-> {}]

\* The request coroutine t of candidate p awaits: every attempt of a call
\* asks the same URL.
Key(p, t) == <<p, t.path, t.op, t.k>>

\* The answer of server srv to the request key for op: the one it gave
\* before, otherwise the plain one.
Answer(srv, key, op) ==
    IF \E a \in srv.answers : a[1] = key
    THEN (CHOOSE a \in srv.answers : a[1] = key)[2]
    ELSE PlainAnswer(op)

\* May server srv answer o to the request key?  A server being fixed repeats
\* what it answered to the same request before; a fixed one answers as fixed.
ServerAllows(srv, key, op, o) ==
    CASE srv.mode = "any" -> TRUE
      [] srv.mode = "fixing" -> ((\E a \in srv.answers : a[1] = key) => o = Answer(srv, key, op))
      [] srv.mode = "fixed" -> o = Answer(srv, key, op)
      [] srv.mode = "failing" -> o = "fail"

\* The servers under which the scan's budget of events applies.
Budgeted(srv) == srv.mode \in {"any", "fixing"}

\* ----------------------------------------------------------------- scan
Min(a, b) == IF a < b THEN a ELSE b

\* A faulty Chunk: the slice taken one element too long.
ChunkOneTooMany(db, start, chunk_size) ==
    [j \in 1..Min(chunk_size + 1, Len(db) - start) |-> start + j]

\* chunk = components_db[i:i + chunk_size], as the positions it holds.
Chunk(db, start, chunk_size) ==
    [j \in 1..Min(chunk_size, Len(db) - start) |-> start + j]

\* A faulty NextIndex: a stride one too long.
NextIndexSkips(start, chunk_size) == start + chunk_size + 1

\* for i in range(0, len(components_db), chunk_size): the next value of i.
NextIndex(start, chunk_size) == start + chunk_size

CurrentChunk == Chunk(components_db, i, config.threads)

Range(s) == {s[j] : j \in 1..Len(s)}

Unfinished == {"ready", "wait", "sleep"}

\* A faulty GatherReturns: a wait that returns at the first completed member.
GatherReturnsFirst(ts, chunk) == \E j \in 1..Len(chunk) : ts[chunk[j]].st = "done"

\* A faulty GatherReturns: only the chunk's last member waited for.
GatherReturnsLast(ts, chunk) == chunk # <<>> /\ ts[chunk[Len(chunk)]].st = "done"

\* results = await asyncio.gather(*tasks) returns once every task has returned.
GatherReturns(ts, chunk) == \A j \in 1..Len(chunk) : ts[chunk[j]].st = "done"

\* gather without return_exceptions: the first exception raised by a member
\* is raised to the awaiting scan; the other members keep running.
GatherRaises(ts, chunk) == \E j \in 1..Len(chunk) : ts[chunk[j]].st = "raised"

\* A faulty AppendResults: each result put in front of the list.
RECURSIVE PrependResults(_, _)
PrependResults(comps, results) ==
    IF results = <<>>
    THEN comps
    ELSE PrependResults(IF Head(results) # <<>> THEN Head(results) \o comps ELSE comps,
                        Tail(results))

\* for result in results: if result: self.components.append(result)
RECURSIVE AppendResults(_, _)
AppendResults(comps, results) ==
    IF results = <<>>
    THEN comps
    ELSE AppendResults(IF Head(results) # <<>> THEN comps \o Head(results) ELSE comps,
                       Tail(results))

\* A faulty AdvanceProgress: progress.advance moved under "if result:".
AdvanceProgressIfFound(count, results) ==
    count + Cardinality({j \in 1..Len(results) : results[j] # <<>>})

\* for result in results: ... progress.advance(task)
AdvanceProgress(count, results) == count + Len(results)

\* A faulty SumVulnerabilities: the components counted, not their entries.
CountComponents(comps) == Len(comps)

\* sum(len(c.vulnerabilities) for c in self.components)
RECURSIVE SumVulnerabilities(_)
SumVulnerabilities(comps) ==
    IF comps = <<>>
    THEN 0
    ELSE Len(Head(comps).vulnerabilities) + SumVulnerabilities(Tail(comps))

\* ScanResult(components=self.components, total_vulnerabilities=sum(...), ...)
generate_report(comps, cfg) ==
    [components |-> comps, total_vulnerabilities |-> SumVulnerabilities(comps),
     scan_config |-> cfg]

\* ------------------------------------------------------------- actions
\* run_scanner: async with Scanner(config) (__aenter__), then scan() up to
\* its loop: components_db = self.load_components_db().
Enter ==
    /\ mpc = "main"
    /\ session' = "open"
    /\ mpc' = "loop"
    /\ UNCHANGED <<config, components_db, i, tasks, components, progress, report,
                   error, batches, reordered, last, eventsLeft, answered, exposed, server, first>>

\* One iteration of scan's loop up to the await: the chunk and its coroutines.
StartChunk ==
    /\ mpc = "loop"
    /\ i < Len(components_db)
    /\ LET chunk == CurrentChunk
       IN  /\ tasks' = [p \in DOMAIN tasks |->
                          IF p \in Range(chunk)
                          THEN NewTask(components_db[p], "ready")
                          ELSE tasks[p]]
           /\ batches' = Append(batches, chunk)
    /\ mpc' = "gather"
    /\ UNCHANGED <<config, components_db, i, session, components, progress, report,
                   error, reordered, last, eventsLeft, answered, exposed, server, first>>

\* A member finishing while an earlier member of its chunk is still running.
Overtakes(ts, p) ==
    /\ ts[p].st \in {"done", "raised"}
    /\ \E q \in DOMAIN ts : q < p /\ ts[q].st \in Unfinished

\* The event loop runs what is ready in the order it was scheduled: gather
\* schedules the first step of every member, in chunk order, before any
\* response or timer can resume one of them.
NoneReady(ts) == \A q \in DOMAIN ts : ts[q].st # "ready"

\* check_component starts: it runs to its first request.
Begin(p) ==
    /\ tasks[p].st = "ready"
    /\ \A q \in DOMAIN tasks : q < p => tasks[q].st # "ready"
    /\ LET u == Advance([Goto(tasks[p], "path", 0) EXCEPT !.path = 1],
                         session = "closed")
       IN  /\ tasks' = [tasks EXCEPT ![p] = AtRest(u)]
           /\ last' = IF u.last = NoCall THEN last ELSE [u.last EXCEPT !.task = p]
    /\ reordered' = (reordered \/ Overtakes(tasks', p))
    /\ UNCHANGED <<config, components_db, mpc, i, session, components, progress,
                   report, error, batches, eventsLeft, answered, exposed, server, first>>

\* The request check_component p awaits ends with outcome o; p runs on to its
\* next request, to its sleep before a retry, or to its end.
Deliver(p, o) ==
    /\ tasks[p].st = "wait"
    /\ NoneReady(tasks)
    /\ o \in Outcomes(tasks[p].op)
    /\ ServerAllows(server, Key(p, tasks[p]), tasks[p].op, o)
    /\ (~IsPlain(o) /\ Budgeted(server)) => eventsLeft > 0
    /\ eventsLeft' = IF IsPlain(o) \/ ~Budgeted(server)
                     THEN eventsLeft ELSE eventsLeft - 1
    /\ server' = IF server.mode = "fixing" /\ ~IsPlain(o)
                 THEN [server EXCEPT !.answers = @ \cup {<<Key(p, tasks[p]), o>>}]
                 ELSE server
    /\ answered' = IF tasks[p].op = "path" /\ o = "200"
                   THEN [answered EXCEPT ![p] = answered[p] \cup {tasks[p].path}]
                   ELSE answered
    /\ LET shown == Exposure(tasks[p].op, o) \o Extraction(tasks[p].op, o)
       IN  exposed' = IF shown # <<>>
                      THEN [exposed EXCEPT ![p] = exposed[p] \cup {<<tasks[p].path, shown[1]>>}]
                      ELSE exposed
    /\ LET u == Advance(After(tasks[p], o), session = "closed")
       IN  /\ tasks' = [tasks EXCEPT ![p] = AtRest(u)]
           /\ last' = [u.last EXCEPT !.task = p]
    /\ reordered' = (reordered \/ Overtakes(tasks', p))
    /\ UNCHANGED <<config, components_db, mpc, i, session, components, progress,
                   report, error, batches, first>>

\* await asyncio.sleep(1) is over: check_url(url, retry_count + 1) sends again.
Wake(p) ==
    /\ tasks[p].st = "sleep"
    /\ NoneReady(tasks)
    /\ LET u == Advance([tasks[p] EXCEPT !.st = "go"], session = "closed")
       IN  /\ tasks' = [tasks EXCEPT ![p] = AtRest(u)]
           /\ last' = IF u.last = NoCall THEN last ELSE [u.last EXCEPT !.task = p]
    /\ reordered' = (reordered \/ Overtakes(tasks', p))
    /\ UNCHANGED <<config, components_db, mpc, i, session, components, progress,
                   report, error, batches, eventsLeft, answered, exposed, server, first>>

\* A collected coroutine: only what it found and returned is remembered.
Collected(t) ==
    [NewTask(t.name, "collected") EXCEPT !.found_paths = t.found_paths,
                                         !.result = t.result]

\* gather returns the chunk's results in chunk order; scan appends the
\* components, advances the progress bar once per result and loops.
Collect ==
    /\ mpc = "gather"
    /\ GatherReturns(tasks, CurrentChunk)
    /\ LET chunk == CurrentChunk
           results == [j \in 1..Len(chunk) |-> tasks[chunk[j]].result]
       IN  /\ components' = AppendResults(components, results)
           /\ progress' = AdvanceProgress(progress, results)
           /\ tasks' = [p \in DOMAIN tasks |->
                          IF p \in Range(chunk) /\ tasks[p].st = "done"
                          THEN Collected(tasks[p])
                          ELSE tasks[p]]
    /\ i' = NextIndex(i, config.threads)
    /\ mpc' = "loop"
    /\ UNCHANGED <<config, components_db, session, report, error, batches,
                   reordered, last, eventsLeft, answered, exposed, server, first>>

\* A faulty GatherRaise: the exception leaves run_scanner past __aexit__.
GatherRaiseNoExit ==
    /\ mpc = "gather"
    /\ GatherRaises(tasks, CurrentChunk)
    /\ error' = TRUE
    /\ mpc' = "aclose"
    /\ UNCHANGED <<config, components_db, i, session, tasks, components, progress,
                   report, batches, reordered, last, eventsLeft, answered, exposed, server, first>>

\* gather raises a member's exception out of scan and run_scanner's async
\* with: __aexit__ starts session.aclose(), which marks the client closed and
\* awaits the transport.
GatherRaise ==
    /\ mpc = "gather"
    /\ GatherRaises(tasks, CurrentChunk)
    /\ error' = TRUE
    /\ session' = "closed"
    /\ mpc' = "aclose"
    /\ UNCHANGED <<config, components_db, i, tasks, components, progress, report,
                   batches, reordered, last, eventsLeft, answered, exposed, server, first>>

\* The loop is over: scan returns, run_scanner calls generate_report and
\* leaves the async with.
Report ==
    /\ mpc = "loop"
    /\ i >= Len(components_db)
    /\ report' = <<generate_report(components, config)>>
    /\ session' = "closed"
    /\ mpc' = "aclose"
    /\ UNCHANGED <<config, components_db, i, tasks, components, progress, error,
                   batches, reordered, last, eventsLeft, answered, exposed, server, first>>

\* aclose is done and run_scanner ends; asyncio.run cancels what still runs.
Exit ==
    /\ mpc = "aclose"
    /\ mpc' = "end"
    /\ tasks' = [p \in DOMAIN tasks |->
                   IF tasks[p].st \in Unfinished
                   THEN [tasks[p] EXCEPT !.st = "cancelled"]
                   ELSE tasks[p]]
    /\ UNCHANGED <<config, components_db, i, session, components, progress, report,
                   error, batches, reordered, last, eventsLeft, answered, exposed, server, first>>

AllOutcomes == UNION {Outcomes(op) : op \in UrlOps \cup GetOps}

Configs == [threads : 1..MaxThreads, max_retries : 1..MaxRetries]

Candidates(n) == [j \in 1..n |-> j]

\* The state on entry at position at: nothing created yet.
InitRun(cfgs, maxCands, events, srv, at) ==
    /\ config \in cfgs
    /\ \E n \in 0..maxCands : components_db = Candidates(n)
    /\ mpc = at
    /\ i = 0
    /\ session = "none"
    /\ tasks = [p \in DOMAIN components_db |-> NewTask(components_db[p], "idle")]
    /\ components = <<>>
    /\ progress = 0
    /\ report = <<>>
    /\ error = FALSE
    /\ batches = <<>>
    /\ reordered = FALSE
    /\ last = NoCall
    /\ answered = [p \in DOMAIN components_db |-> {}]
    /\ exposed = [p \in DOMAIN components_db |-> {}]
    /\ eventsLeft = events
    /\ server = srv
    /\ first = <<>>

\* The state after construction of the ScanConfig, on entry of run_scanner.
InitWith(cfgs, maxCands, events) == InitRun(cfgs, maxCands, events, AnyServer, "main")

\* The scans that retry a failed request once: any batch size, the longest
\* candidate lists.
OneRetryConfigs == {c \in Configs : c.max_retries = 1}

Init == InitWith(OneRetryConfigs, MaxCands, MaxEvents)

Next ==
    \/ Enter
    \/ StartChunk
    \/ \E p \in DOMAIN tasks : Begin(p)
    \/ \E p \in DOMAIN tasks : \E o \in AllOutcomes : Deliver(p, o)
    \/ \E p \in DOMAIN tasks : Wake(p)
    \/ Collect
    \/ GatherRaise
    \/ Report
    \/ Exit

Spec == Init /\ [][Next]_vars

\* The scans with config.threads = 1: fewer interleavings, more server events.
SeqConfigs == {c \in Configs : c.threads = 1}

InitSeq == InitWith(SeqConfigs, MaxSeqCands, MaxSeqEvents)

SpecSeq == InitSeq /\ [][Next]_vars

\* The scans with config.threads = 2: two probers side by side, each of which
\* may be answered an event.
ParConfigs == {c \in OneRetryConfigs : c.threads = 2}

InitPar == InitWith(ParConfigs, MaxParCands, MaxParEvents)

SpecPar == InitPar /\ [][Next]_vars

\* main's try block up to asyncio.run(run_scanner(config)): the ScanConfig
\* is built from the arguments and passes validation.
Construct ==
    /\ mpc = "start"
    /\ ValidScanConfig(config)
    /\ mpc' = "main"
    /\ UNCHANGED <<config, components_db, i, session, tasks, components, progress,
                   report, error, batches, reordered, last, eventsLeft, answered, exposed, server, first>>

\* ScanConfig(...) raises ValidationError: main's except clause logs it and
\* raises typer.Exit(1).
Reject ==
    /\ mpc = "start"
    /\ ~ValidScanConfig(config)
    /\ mpc' = "exit1"
    /\ UNCHANGED <<config, components_db, i, session, tasks, components, progress,
                   report, error, batches, reordered, last, eventsLeft, answered, exposed, server, first>>

\* The arguments main may be called with: the values the scans above use,
\* the default timeout, and for each field the values just outside its range.
MainArgs ==
    [threads : (1..MaxThreads) \cup {ThreadsGe - 1, ThreadsLe + 1},
     timeout : {TimeoutGe - 1, TimeoutDefault, TimeoutLe + 1},
     max_retries : (1..MaxRetries) \cup {MaxRetriesGe - 1, MaxRetriesLe + 1}]

\* main is called: config holds the values the ScanConfig is to be built from.
InitMain == InitRun(MainArgs, MaxMainCands, MaxMainEvents, AnyServer, "start")

NextMain == Construct \/ Reject \/ Next

SpecMain == InitMain /\ [][NextMain]_vars

\* A first run of run_scanner has ended: the same scan is run once more,
\* against the server as the first run found it (what it was not asked, it
\* answers plainly).
Rerun ==
    /\ mpc = "end"
    /\ server.mode = "fixing"
    /\ first' = <<[report |-> report, reordered |-> reordered]>>
    /\ server' = [server EXCEPT !.mode = "fixed"]
    /\ mpc' = "main"
    /\ i' = 0
    /\ session' = "none"
    /\ tasks' = [p \in DOMAIN components_db |-> NewTask(components_db[p], "idle")]
    /\ components' = <<>>
    /\ progress' = 0
    /\ report' = <<>>
    /\ error' = FALSE
    /\ batches' = <<>>
    /\ reordered' = FALSE
    /\ last' = NoCall
    /\ answered' = [p \in DOMAIN components_db |-> {}]
    /\ exposed' = [p \in DOMAIN components_db |-> {}]
    /\ eventsLeft' = 0
    /\ UNCHANGED <<config, components_db>>

\* A server that fixes each answer the first time it gives it.
FixingServer == [mode |-> "fixing", answers |-> {}]

InitTwice == InitRun(ParConfigs, MaxTwiceCands, MaxTwiceEvents, FixingServer, "main")

NextTwice == Next \/ Rerun

\* Two runs with config.threads = 2 against one server of fixed answers.
SpecTwice == InitTwice /\ [][NextTwice]_vars

\* The scans with one prober at a time or two side by side, and the longest
\* retry chains.
FairConfigs == {c \in Configs : c.threads <= 2 /\ c.max_retries = MaxRetries}

\* Those scans, against a server that answers freely and against one on
\* which every request fails.
InitFair ==
    \E srv \in {AnyServer, FailingServer} :
        InitRun(FairConfigs, MaxFairCands, MaxFairEvents, srv, "main")

\* The event loop runs whatever is ready, a timer set by asyncio.sleep(1)
\* fires, and every request ends, by an answer or by its timeout: as long as
\* a step is possible, one is taken.
SpecFair == InitFair /\ [][Next]_vars /\ WF_vars(Next)

\* --------------------------------------------------------------- claims
Positions == DOMAIN tasks

\* The check_component invocations created and not finished, and the HTTP
\* requests outstanding (one per invocation awaiting a response).
InFlight == {p \in Positions : tasks[p].st \in Unfinished}
Outstanding == {p \in Positions : tasks[p].st = "wait"}

\* C1: at no instant are more than config.threads check_component
\* invocations unfinished, nor more than config.threads requests outstanding.
C1_BoundedConcurrency ==
    /\ Cardinality(InFlight) <= config.threads
    /\ Cardinality(Outstanding) <= config.threads

\* Two probers of one chunk both await a response under threads = 2.
C1_Witness ==
    /\ config.threads = 2
    /\ Cardinality(Outstanding) = 2

\* C2: while a member of an earlier batch is unfinished, no later batch has
\* been formed, so none of its invocations has started.
C2_BatchesSequential ==
    \A j \in 1..Len(batches) : \A k \in 1..Len(batches) :
        j < k => \A q \in Range(batches[j]) : tasks[q].st \notin Unfinished

\* The second batch runs after the first one's members finished out of list
\* order (the single member of batch 2 cannot itself overtake anyone).
C2_Witness ==
    /\ Len(batches) = 2
    /\ Len(batches[1]) = 2
    /\ Len(batches[2]) = 1
    /\ reordered
    /\ \E p \in Range(batches[2]) : tasks[p].st = "wait"

\* The batches a scan of n candidates with batch size b is made of.
NumBatches == (Len(components_db) + config.threads - 1) \div config.threads

\* A check_component raised in a batch that has another member and is not
\* the last batch.
RaisedAmongOthers ==
    \E j \in 1..Len(batches) : \E p \in Range(batches[j]) :
        /\ tasks[p].st = "raised"
        /\ Len(batches[j]) > 1
        /\ j < NumBatches

\* C3 (as claimed): when a check_component raised, the scan still ends with
\* every batch run, every other candidate's result collected and a report
\* holding the components of the other candidates.
C3_FailureIsolated ==
    (mpc = "end" /\ RaisedAmongOthers) =>
        /\ report # <<>>
        /\ Len(batches) = NumBatches
        /\ \A q \in Positions : tasks[q].st \in {"raised", "collected"}
        /\ \A q \in Positions :
              tasks[q].result # <<>> =>
                  \E c \in 1..Len(report[1].components) :
                      report[1].components[c] = tasks[q].result[1]

\* The vulnerability entries of a component list, each named by its
\* component's index and its own.
Entries(comps) ==
    UNION {{<<c, v>> : v \in 1..Len(comps[c].vulnerabilities)} : c \in 1..Len(comps)}

\* C4: the report's total_vulnerabilities is the number of vulnerability
\* entries held by the report's components.
C4_TotalReconciles ==
    report # <<>> =>
        report[1].total_vulnerabilities = Cardinality(Entries(report[1].components))

\* A report over two components, one with a vulnerability and one without.
C4_Witness ==
    /\ report # <<>>
    /\ Len(report[1].components) = 2
    /\ \E c \in 1..2 : Len(report[1].components[c].vulnerabilities) = 1
    /\ \E c \in 1..2 : Len(report[1].components[c].vulnerabilities) = 0
    /\ report[1].total_vulnerabilities = 1

\* The last event is an attempt of a check_url call.
LastIsUrl == last.op \in UrlOps

\* C5: a check_url call returns None only after max_retries + 1 attempts that
\* all failed at the transport level, it makes no attempt beyond those, a
\* failed attempt before the last is retried, none is raised, and a path
\* probe that returned None leaves its path out of found_paths, as any
\* non-200 status does.
C5_RetryBound ==
    LastIsUrl =>
        /\ last.attempts <= config.max_retries + 1
        /\ last.ret = "None" =>
              last.resp = "fail" /\ last.attempts = config.max_retries + 1
        /\ last.resp = "fail" =>
              last.ret = IF last.attempts = config.max_retries + 1
                         THEN "None" ELSE "retry"
        /\ (last.op = "path" /\ last.ret \in {"None", "404", "500"}) =>
              last.path \notin tasks[last.task].found_paths

\* A path probe gave up after max_retries + 1 failed attempts.
C5_Witness ==
    /\ last.op = "path"
    /\ last.ret = "None"
    /\ last.attempts = config.max_retries + 1
    /\ last.path \notin tasks[last.task].found_paths

\* C6: an attempt of check_url that received a response ends the call with
\* that status, whatever it is; the call goes on to another attempt only
\* after a transport failure.
C6_NoRetryAfterResponse ==
    LastIsUrl =>
        /\ last.resp \in Statuses =>
              /\ last.ret = last.resp
              /\ tasks[last.task].st # "sleep"
              /\ tasks[last.task].st = "wait" => tasks[last.task].retry_count = 0
        /\ last.ret = "retry" => last.resp = "fail"

\* A 500 received on the attempt after a failed one ends the call.
C6_Witness ==
    /\ LastIsUrl
    /\ last.resp = "500"
    /\ last.attempts = 2
    /\ last.ret = "500"

\* C7 (as claimed): a fetch an exposure check makes itself (the directory
\* listing page, the base page and the manifest of the version extraction,
\* the HEAD request) is given up after a transport failure only once it was
\* attempted max_retries + 1 times.
C7_ExposureFetchRetried ==
    (last.op \in GetOps /\ last.resp = "fail") =>
        last.attempts = config.max_retries + 1

\* The component list holds a Component named after candidate p.
Appended(p) == \E c \in 1..Len(components) : components[c].name = components_db[p]

\* The invocations that returned (a value, not an exception).
Returned == {p \in Positions : tasks[p].st \in {"done", "collected"}}

\* C8: a check_component invocation that returns yields a Component exactly
\* if one of its three paths was answered 200, and then one named after its
\* candidate whose paths are exactly the paths answered 200; no invocation
\* holds a Component without such a path; a Component is in the component
\* list only for a candidate with such a path, and is there once the batch
\* of a found candidate is collected; the report of a scan in which no path
\* was answered 200 has no components and total_vulnerabilities = 0.
C8_ComponentIffFound ==
    /\ \A p \in Returned :
          /\ tasks[p].result # <<>> <=> answered[p] # {}
          /\ tasks[p].result # <<>> =>
                /\ tasks[p].result[1].name = components_db[p]
                /\ tasks[p].result[1].paths = answered[p]
    /\ \A p \in Positions :
          /\ tasks[p].result # <<>> => answered[p] # {}
          /\ Appended(p) => answered[p] # {}
          /\ (tasks[p].st = "collected" /\ answered[p] # {}) =>
                \E c \in 1..Len(components) : components[c] = tasks[p].result[1]
    /\ (report # <<>> /\ \A p \in Positions : answered[p] = {}) =>
          /\ report[1].components = <<>>
          /\ report[1].total_vulnerabilities = 0

\* A completed scan of two candidates: one answered 200 on two of its paths
\* and is in the list with exactly those, the other on none and is not.
C8_Witness ==
    /\ report # <<>>
    /\ \E p \in Positions :
          /\ Cardinality(answered[p]) = 2
          /\ tasks[p].st = "collected"
          /\ tasks[p].result # <<>>
          /\ tasks[p].result[1].paths = answered[p]
          /\ Appended(p)
    /\ \E q \in Positions :
          /\ answered[q] = {}
          /\ tasks[q].st = "collected"
          /\ tasks[q].result = <<>>
          /\ ~Appended(q)

\* The members of p's batch.
BatchOf(p) == UNION {Range(batches[j]) : j \in {k \in 1..Len(batches) : p \in Range(batches[k])}}

\* C9 (as claimed): a candidate whose result is known and not yet counted by
\* the progress bar is never waiting for a member of its batch that still runs.
C9_ProgressImmediate ==
    \A p \in Positions :
        tasks[p].st = "done" => \A q \in BatchOf(p) : tasks[q].st \notin Unfinished

\* C9 (amended): the progress bar counts exactly the candidates, found or
\* not, of the batches whose gather has returned, a batch being counted as
\* a whole; after a completed scan it counts every candidate.
C9_ProgressPerJoinedBatch ==
    /\ progress = Cardinality({p \in Positions : tasks[p].st = "collected"})
    /\ \A p \in Positions :
          tasks[p].st = "collected" => \A q \in BatchOf(p) : tasks[q].st = "collected"
    /\ report # <<>> => progress = Len(components_db)

\* A completed scan of three candidates, one found and counted, two not
\* found and counted.
C9_Witness ==
    /\ report # <<>>
    /\ progress = 3
    /\ \E p \in Positions : tasks[p].st = "collected" /\ tasks[p].result # <<>>
    /\ \E p \in Positions : tasks[p].st = "collected" /\ tasks[p].result = <<>>

RECURSIVE Flatten(_)
Flatten(ss) == IF ss = <<>> THEN <<>> ELSE Head(ss) \o Flatten(Tail(ss))

\* The batches formed so far are consecutive slices of the list, in list
\* order, each of batch size except a last one that ends the list.
SlicesInOrder ==
    /\ Flatten(batches) = [j \in 1..Len(Flatten(batches)) |-> j]
    /\ Len(Flatten(batches)) <= Len(components_db)
    /\ \A j \in 1..Len(batches) :
          /\ Len(batches[j]) >= 1
          /\ Len(batches[j]) <= config.threads
          /\ Len(batches[j]) < config.threads =>
                (j = Len(batches) /\ batches[j][Len(batches[j])] = Len(components_db))

\* C10: the batches a scan forms are consecutive slices of the candidate
\* list in list order, each of b members except a last one of 1..b that
\* ends the list, never more than ceil(n/b) of them; when scan returns they
\* are exactly ceil(n/b) and hold every candidate once.
C10_BatchPartition ==
    /\ SlicesInOrder
    /\ Len(batches) <= NumBatches
    /\ report # <<>> =>
          /\ Len(batches) = NumBatches
          /\ Len(Flatten(batches)) = Len(components_db)

\* A completed scan of three candidates with batch size 2: sizes [2, 1].
C10_Witness ==
    /\ report # <<>>
    /\ Len(components_db) = 3
    /\ Len(batches) = 2
    /\ Len(batches[1]) = 2
    /\ Len(batches[2]) = 1

\* The candidates of which a path was answered 200, in candidate-list order.
IsFound(name) == \E p \in Positions : components_db[p] = name /\ answered[p] # {}
FoundCandidates == SelectSeq(components_db, IsFound)

\* The candidates whose batch was collected, in candidate-list order.
IsCollected(name) == \E p \in Positions : components_db[p] = name /\ tasks[p].st = "collected"
CollectedCandidates == SelectSeq(components_db, IsCollected)

Names(comps) == [c \in 1..Len(comps) |-> comps[c].name]

\* The batches candidate p was put in.
BatchesWith(p) == {j \in 1..Len(batches) : p \in Range(batches[j])}

\* C11: no candidate is ever given to more than one check_component; the
\* component list is at every instant the found candidates among those
\* collected, in candidate-list order; and when scan has returned every
\* candidate was probed once and the report's component list is the
\* subsequence of the candidate list made of the found candidates, however
\* the members of a batch completed.
C11_ExhaustiveInOrder ==
    /\ \A p \in Positions : Cardinality(BatchesWith(p)) <= 1
    /\ Names(components) = SelectSeq(CollectedCandidates, IsFound)
    /\ report # <<>> =>
          /\ \A p \in Positions :
                Cardinality(BatchesWith(p)) = 1 /\ tasks[p].st = "collected"
          /\ Names(report[1].components) = FoundCandidates

\* Two found candidates of one batch, the second completed before the
\* first, reported in candidate-list order.
C11_Witness ==
    /\ report # <<>>
    /\ reordered
    /\ Len(batches) = 1
    /\ Names(report[1].components) = <<components_db[1], components_db[2]>>

\* The entry the claim expects for an exposure of the given type on path k of
\* candidate p, if the server showed it.
Entry(p, k, type, severity) ==
    IF <<k, type>> \in exposed[p]
    THEN <<Vulnerability(type, severity, Url(components_db[p], k))>>
    ELSE <<>>

\* The entries expected for candidate p over its paths k..NumPaths.
RECURSIVE ExpectedFrom(_, _)
ExpectedFrom(p, k) ==
    IF k > NumPaths
    THEN <<>>
    ELSE (IF k \in answered[p]
          THEN Entry(p, k, "Directory Listing", "Medium")
               \o Entry(p, k, "Exposed Documentation", "Low")
               \o Entry(p, k, "Exposed Manifest", "Low")
          ELSE <<>>) \o ExpectedFrom(p, k + 1)

\* C12: the Component a check_component invocation returns holds, for each
\* found path in loop order, one entry per exposure the server showed on that
\* path and none for one it did not show, in the order Directory Listing
\* (Medium), Exposed Documentation (Low), Exposed Manifest (Low), each with
\* that path's URL; and so does every Component of the list.
C12_EntriesPerExposure ==
    /\ \A p \in Returned :
          tasks[p].result # <<>> =>
              tasks[p].result[1].vulnerabilities = ExpectedFrom(p, 1)
    /\ \A c \in 1..Len(components) : \A p \in Positions :
          components[c].name = components_db[p] =>
              components[c].vulnerabilities = ExpectedFrom(p, 1)

\* The scenario: one candidate, found on its front-end path only, whose page
\* has an "Index of" title and whose readme is served; the report holds one
\* Component with exactly the two entries.
C12_Witness ==
    /\ report # <<>>
    /\ Len(components_db) = 1
    /\ answered[1] = {1}
    /\ Len(report[1].components) = 1
    /\ report[1].components[1].name = components_db[1]
    /\ report[1].components[1].vulnerabilities =
          <<Vulnerability("Directory Listing", "Medium", Url(components_db[1], 1)),
            Vulnerability("Exposed Documentation", "Low", Url(components_db[1], 1))>>

\* The last of candidate p's paths, in loop order, that was answered 200.
LastFound(p) == CHOOSE k \in answered[p] : \A m \in answered[p] : m <= k

\* What get_component_version and get_last_modified had to give on path k of
\* candidate p, from what the server showed there.
VersionOn(p, k) ==
    CASE <<k, "meta">> \in exposed[p] -> <<"meta", k>>
      [] <<k, "metaempty">> \in exposed[p] -> Empty
      [] <<k, "metanocontent">> \in exposed[p] -> None
      [] <<k, "version">> \in exposed[p] -> <<"manifest", k>>
      [] <<k, "versionempty">> \in exposed[p] -> Empty
      [] OTHER -> None

LastModifiedOn(p, k) == IF <<k, "lm">> \in exposed[p] THEN <<"lm", k>> ELSE None

\* C13: the version and last_modified of a returned Component are what the
\* extraction gave on the last path answered 200, whatever it gave on an
\* earlier found path and also when that is absent.
C13_LastFoundPathWins ==
    \A p \in Returned :
        tasks[p].result # <<>> =>
            /\ tasks[p].result[1].version = VersionOn(p, LastFound(p))
            /\ tasks[p].result[1].last_modified = LastModifiedOn(p, LastFound(p))

\* A reported Component found on its first two paths: the first page had a
\* generator meta, the second gave no version, and the version is absent.
C13_Witness ==
    /\ report # <<>>
    /\ \E c \in 1..Len(report[1].components) : \E p \in Positions :
          /\ report[1].components[c].name = components_db[p]
          /\ answered[p] = {1, 2}
          /\ <<1, "meta">> \in exposed[p]
          /\ report[1].components[c].version = None

\* C14 (as claimed): a base page whose generator meta has a missing or an
\* empty content sends get_component_version on to the manifest, and no
\* version it returns, so none a coroutine or a Component holds, is empty.
C14_FirstNonEmptyVersion ==
    /\ (last.op = "ver_get" /\ last.resp \in {"metaempty", "metanocontent"}) =>
          /\ last.ret = "next"
          /\ tasks[last.task].op = "ver_url"
    /\ last.op \in {"ver_get", "ver_mget"} => last.ret # "empty"
    /\ \A p \in Positions : tasks[p].version # Empty
    /\ \A c \in 1..Len(components) : components[c].version # Empty

\* The requests made by the exposure checks (everything but the path probe).
ExposureOps == (UrlOps \cup GetOps) \ {"path"}

\* C15 (as claimed): no check_component is ever ended by an exception out of
\* an exposure check: whatever ends a request of an exposure check, the check
\* returns a value and check_component goes on.
C15_ExposureChecksNeverRaise ==
    \A p \in Positions : ~(tasks[p].st = "raised" /\ tasks[p].op \in ExposureOps)

\* No check_component has been created yet.
NothingStarted == \A p \in Positions : tasks[p].st = "idle"

\* C16: the client changes hands only twice, from not created to open while
\* no probe has started, and from open to closed; run_scanner never ends,
\* with a report or with an error, while the client is not closed.
C16_ClientOpenedOnceClosedOnce ==
    [][/\ session' # session =>
            \/ session = "none" /\ session' = "open" /\ NothingStarted
            \/ session = "open" /\ session' = "closed"
       /\ ~NothingStarted' => session' # "none"
       /\ mpc' = "end" => session' = "closed"]_vars

\* run_scanner ended by a member's exception, a sibling cancelled, the client
\* closed.
C16_Witness ==
    /\ mpc = "end"
    /\ error
    /\ report = <<>>
    /\ session = "closed"
    /\ \E p \in Positions : tasks[p].st = "cancelled"

\* The ranges the claim names.
InRange(cfg) ==
    /\ cfg.threads \in 1..50
    /\ cfg.timeout \in 1..30
    /\ cfg.max_retries \in 1..5

\* C17: in a run of main whose threads, timeout or max_retries is out of
\* range, the client is never created, no check_component is ever created,
\* no batch formed and no request made: main is at its start or has left
\* with typer.Exit(1).
C17_RangesEnforced ==
    ~InRange(config) =>
        /\ mpc \in {"start", "exit1"}
        /\ session = "none"
        /\ NothingStarted
        /\ batches = <<>>
        /\ last = NoCall

\* main has left with exit code 1 on threads = 51, nothing started, although
\* there is a candidate to probe.
C17_Witness ==
    /\ mpc = "exit1"
    /\ config.threads = 51
    /\ config.timeout \in 1..30
    /\ config.max_retries \in 1..5
    /\ Len(components_db) = 1
    /\ session = "none"
    /\ NothingStarted

\* What the claim compares of a component list: the names in order, each
\* with its paths and the types of its vulnerabilities.
Summary(comps) ==
    [c \in 1..Len(comps) |->
        [name |-> comps[c].name, paths |-> comps[c].paths,
         types |-> [v \in 1..Len(comps[c].vulnerabilities) |->
                      comps[c].vulnerabilities[v].type]]]

\* What a run ended with: the summary of its report, or no report.
ResultOf(rep) == IF rep = <<>> THEN <<>> ELSE <<Summary(rep[1].components)>>

C19_ScanTerminates == <>(mpc = "end" /\ (report # <<>> \/ error))

\* A scan of two candidates in one batch on which every request failed has
\* ended with a report, the last retry chain run to its end.
C19_Witness ==
    /\ mpc = "end"
    /\ report # <<>>
    /\ server.mode = "failing"
    /\ Len(components_db) = 2
    /\ config.threads = 2
    /\ last.resp = "fail"
    /\ last.attempts = config.max_retries + 1
    /\ \A p \in Positions : tasks[p].st = "collected"

\* C20 (as claimed): once the client is closed, no check_component is
\* unfinished and no request is outstanding.
C20_ReleasedAfterLastProbe ==
    session = "closed" => (InFlight = {} /\ Outstanding = {})

====
